---- MODULE Spec2Model ----
(***************************************************************************)
(* A model of the arroyo SQL front end (arroyo-sql/src/lib.rs): the        *)
(* catalog ArroyoSchemaProvider, UDF registration (add_rust_udf), and the  *)
(* compilation entry points parse_and_get_program(_sync) with              *)
(* SqlProgramBuilder::plan_query / process_statement.                      *)
(***************************************************************************)
EXTENDS Integers, Sequences, FiniteSets, TLC

VARIABLES
    tables,       \* ArroyoSchemaProvider.tables : name -> Table
    functions,    \* ArroyoSchemaProvider.functions : name -> ScalarUDF signature
    udf_defs,     \* ArroyoSchemaProvider.udf_defs : name -> UdfDef
    pc,           \* position of the compilation: idle, spawned, planning, planned, done
    entry,        \* the entry point that was called
    query,        \* the query text passed to the entry point (a token sequence)
    stmts,        \* the statements Parser::parse_sql returned
    idx,          \* index of the statement plan_query's loop is at
    outputs,      \* plan_query's local `outputs` vector
    classified,   \* history: the Table process_statement returned for each statement
    parsed,       \* history: Parser::parse_sql has been invoked in this call
    plan_result,  \* how plan_query ended: None, Ok, SyntaxError, UnknownTable, Panic
    result,       \* how the entry point ended
    tables0,      \* history: the table map when the entry point was called
    udf_pc,       \* position of the add_rust_udf caller: idle, returned
    udf_body,     \* the source text passed to add_rust_udf
    udf_result,   \* what add_rust_udf returned
    udf_done,     \* history: number of items the loop of add_rust_udf completed
    functions0,   \* history: functions before the add_rust_udf call
    udf_defs0,    \* history: udf_defs before the add_rust_udf call
    connections,  \* ArroyoSchemaProvider.connections : name -> Connection
    source_defs,  \* ArroyoSchemaProvider.source_defs : source -> definitions
    last_write,   \* history: per table name, the table the latest write under it stored
    overwritten,  \* history of the registrations: the entry the latest
                  \* add_connector_table call replaced by a different table
    mq_pc,        \* position of the MQTT test task: idle, spawned, configuring,
                  \* subscribing, publishing, polling, returned, finished, panicked
    mq_via,       \* the operation that spawned the task: test, test_profile
    mq_config,    \* the MqttConfig passed to test_inner
    mq_table,     \* the MqttTable passed to test_inner: Source, Sink, or None
    native_certs, \* environment: what load_native_certs() gave the task
    wait_for_incomming,  \* test_inner's local of that name
    mq_last,      \* the latest result of eventloop.poll()
    mq_ret,       \* what test_inner returned
    mq_tx,        \* the events sent on the mpsc channel passed to test_inner
    mq_oneshot,   \* the message sent on test_profile's oneshot channel
    rx_open       \* environment: the receiver of the caller's channel is not dropped

catalog_vars == <<tables, functions, udf_defs>>
sql_vars == <<pc, entry, query, stmts, idx, outputs, classified, parsed,
              plan_result, result, tables0>>
udf_vars == <<udf_pc, udf_body, udf_result, udf_done, functions0, udf_defs0>>
aux_vars == <<connections, source_defs>>
compiler_vars == <<catalog_vars, sql_vars, udf_vars, aux_vars, last_write, overwritten>>
mqtt_vars == <<mq_pc, mq_via, mq_config, mq_table, native_certs, wait_for_incomming,
               mq_last, mq_ret, mq_tx, mq_oneshot, rx_open>>
vars == <<tables, functions, udf_defs, pc, entry, query, stmts, idx, outputs,
          classified, parsed, plan_result, result, tables0, udf_pc, udf_body,
          udf_result, udf_done, functions0, udf_defs0, connections, source_defs,
          last_write, overwritten, mq_pc, mq_via, mq_config, mq_table, native_certs,
          wait_for_incomming, mq_last, mq_ret, mq_tx, mq_oneshot, rx_open>>

(***************************************************************************)
(* Bounds of the model.                                                    *)
(***************************************************************************)
MaxQueryLen == 3    \* tokens (statements and whitespace) in one query text
MaxItems == 2       \* items in one UDF source file

(***************************************************************************)
(* std::collections::HashMap                                               *)
(***************************************************************************)
EmptyMap == [k \in {} |-> k]

\* A map insertion that keeps an entry already present (entry().or_insert).
HashMapInsertIfAbsent(m, k, v) ==
    [x \in DOMAIN m \cup {k} |-> IF x \in DOMAIN m THEN m[x] ELSE v]

\* HashMap::insert: the map afterwards (the old entry, if any, is replaced).
HashMapInsert(m, k, v) == [x \in DOMAIN m \cup {k} |-> IF x = k THEN v ELSE m[x]]

\* HashMap::insert's return value `.is_some()`: the key was present before.
InsertedOverExisting(m, k) == k \in DOMAIN m

Range(s) == {s[i] : i \in DOMAIN s}

(***************************************************************************)
(* Tables and logical plans                                                *)
(***************************************************************************)
\* A DataFusion LogicalPlan, as far as process_statement looks at it:
\* the kind of the root node, the write operation of a Dml node, the
\* name a Ddl/Dml node carries, and the table its query scans.
Plan(node, op, name, scan) == [node |-> node, op |-> op, name |-> name, scan |-> scan]

NoPlan == Plan("", "", "", "")

\* The plan of the query `SELECT * FROM scan`.
QueryPlan(scan) == Plan("Projection", "", "", scan)

\* The `input` child of a Ddl / Dml node: the plan of its query.
Input(plan) == QueryPlan(plan.scan)

\* enum Table (tables.rs): ConnectorTable, TableFromQuery, InsertQuery, Anonymous.
ConnectorTable(id, name, connector_type) ==
    [variant |-> "ConnectorTable", name |-> name, sink_name |-> "",
     logical_plan |-> NoPlan, id |-> id, connector_type |-> connector_type]

TableFromQuery(name, logical_plan) ==
    [variant |-> "TableFromQuery", name |-> name, sink_name |-> "",
     logical_plan |-> logical_plan, id |-> 0, connector_type |-> ""]

InsertQuery(sink_name, logical_plan) ==
    [variant |-> "InsertQuery", name |-> "", sink_name |-> sink_name,
     logical_plan |-> logical_plan, id |-> 0, connector_type |-> ""]

\* No table: Option<Table>::None.
NoTable ==
    [variant |-> "None", name |-> "", sink_name |-> "",
     logical_plan |-> NoPlan, id |-> 0, connector_type |-> ""]

Anonymous(logical_plan) ==
    [variant |-> "Anonymous", name |-> "", sink_name |-> "",
     logical_plan |-> logical_plan, id |-> 0, connector_type |-> ""]

\* Table::name(): Some(name) for a connector table and a named view,
\* None for an insert and an anonymous query.
TableName(table) ==
    IF table.variant \in {"ConnectorTable", "TableFromQuery"}
    THEN [some |-> TRUE, name |-> table.name]
    ELSE [some |-> FALSE, name |-> ""]

\* ArroyoSchemaProvider::insert_table: a no-op on a table without a name.
insert_table_noop(tbls, table) == tbls

\* An insert_table that stores every table, an unnamed one under its
\* (empty) name.
insert_table_always(tbls, table) == HashMapInsert(tbls, table.name, table)

insert_table(tbls, table) ==
    IF TableName(table).some
    THEN HashMapInsert(tbls, TableName(table).name, table)
    ELSE tbls

\* ContextProvider::get_table_provider: Ok iff the name is in the table map
\* ("Table {} not found" otherwise).
get_table_provider_any(tbls, name) == TRUE

get_table_provider(tbls, name) == name \in DOMAIN tbls

(***************************************************************************)
(* Query text, Parser::parse_sql                                           *)
(***************************************************************************)
\* A query text is a sequence of tokens: whitespace, or one statement.
Token(kind, name, from) == [kind |-> kind, name |-> name, from |-> from]

WS == Token("WS", "", "")

StatementTokens ==
    [kind : {"CreateView"}, name : {"v"}, from : {"t", "v"}]
      \cup [kind : {"CreateTableAs"}, name : {"v"}, from : {"t"}]
      \cup [kind : {"Insert"}, name : {"s"}, from : {"t", "v"}]
      \cup [kind : {"Select"}, name : {""}, from : {"t", "v"}]
      \cup [kind : {"Update"}, name : {"s"}, from : {"s"}]
      \cup [kind : {"CreateTable"}, name : {"v"}, from : {""}]
      \cup [kind : {"Malformed"}, name : {""}, from : {""}]

Tokens == {WS} \cup StatementTokens

Queries == UNION {[1..n -> Tokens] : n \in 0..MaxQueryLen}

\* str::trim: strips leading and trailing whitespace.
RECURSIVE TrimStart(_)
TrimStart(q) == IF q # <<>> /\ Head(q) = WS THEN TrimStart(Tail(q)) ELSE q

RECURSIVE TrimEnd(_)
TrimEnd(q) ==
    IF q # <<>> /\ q[Len(q)] = WS THEN TrimEnd(SubSeq(q, 1, Len(q) - 1)) ELSE q

Trim(q) == TrimEnd(TrimStart(q))

\* str::is_empty
IsEmpty(q) == Len(q) = 0

IsStatement(tok) == tok # WS

\* Parser::parse_sql reading statement by statement: it returns the
\* statements before the first malformed one.
RECURSIVE UpToMalformed(_)
UpToMalformed(sts) ==
    IF sts = <<>> \/ Head(sts).kind = "Malformed"
    THEN <<>>
    ELSE <<Head(sts)>> \o UpToMalformed(Tail(sts))

parse_sql_lenient(q) ==
    [ok |-> TRUE, statements |-> UpToMalformed(SelectSeq(q, IsStatement))]

\* Parser::parse_sql: the whole text is parsed before any statement is
\* returned; one malformed statement makes the whole call fail.
parse_sql(q) ==
    LET sts == SelectSeq(q, IsStatement)
    IN IF \E i \in DOMAIN sts : sts[i].kind = "Malformed"
       THEN [ok |-> FALSE, statements |-> <<>>]
       ELSE [ok |-> TRUE, statements |-> sts]

(***************************************************************************)
(* SqlProgramBuilder::process_statement                                    *)
(***************************************************************************)
\* The tables SqlToRel::sql_statement_to_plan resolves through
\* get_table_provider for a statement.
ReferencedTables(statement) ==
    CASE statement.kind \in {"CreateView", "CreateTableAs", "Select"} -> {statement.from}
      [] statement.kind = "Insert" -> {statement.name, statement.from}
      [] statement.kind = "Update" -> {statement.name}
      [] OTHER -> {}

\* sql_to_rel.sql_statement_to_plan followed by the analyzer and the
\* optimizer: the optimized plan, or the planner's "table not found" error.
sql_statement_to_plan(statement, tbls) ==
    IF \E n \in ReferencedTables(statement) : ~get_table_provider(tbls, n)
    THEN [ok |-> FALSE, plan |-> NoPlan]
    ELSE [ok |-> TRUE,
          plan |-> CASE statement.kind = "CreateView" ->
                          Plan("Ddl.CreateView", "", statement.name, statement.from)
                     [] statement.kind = "CreateTableAs" ->
                          Plan("Ddl.CreateMemoryTable", "", statement.name, statement.from)
                     [] statement.kind = "Insert" ->
                          Plan("Dml", "Insert", statement.name, statement.from)
                     [] statement.kind = "Update" ->
                          Plan("Dml", "Update", statement.name, statement.from)
                     [] OTHER -> QueryPlan(statement.from)]

\* A classifier that takes every Dml plan for an insert.
ClassifyAnyDml(optimized_plan) ==
    CASE optimized_plan.node \in {"Ddl.CreateView", "Ddl.CreateMemoryTable"} ->
            TableFromQuery(optimized_plan.name, Input(optimized_plan))
      [] optimized_plan.node = "Dml" ->
            InsertQuery(optimized_plan.name, Input(optimized_plan))
      [] OTHER -> Anonymous(optimized_plan)

\* The match on the optimized plan at the end of process_statement.
Classify(optimized_plan) ==
    CASE optimized_plan.node \in {"Ddl.CreateView", "Ddl.CreateMemoryTable"} ->
            TableFromQuery(optimized_plan.name, Input(optimized_plan))
      [] optimized_plan.node = "Dml" /\ optimized_plan.op = "Insert" ->
            InsertQuery(optimized_plan.name, Input(optimized_plan))
      [] OTHER -> Anonymous(optimized_plan)

\* process_statement: a naked CREATE TABLE reaches todo!() and panics; any
\* other statement is planned and its optimized plan classified.
process_statement(statement, tbls) ==
    IF statement.kind = "CreateTable"
    THEN [status |-> "Panic", table |-> Anonymous(NoPlan)]
    ELSE LET planned == sql_statement_to_plan(statement, tbls)
         IN IF ~planned.ok
            THEN [status |-> "UnknownTable", table |-> Anonymous(NoPlan)]
            ELSE [status |-> "Ok", table |-> Classify(planned.plan)]

(***************************************************************************)
(* The catalog at construction and the compilation entry points            *)
(***************************************************************************)
\* datafusion create_udf: a scalar function's name and signature.
create_udf(name, args, ret) == [name |-> name, args |-> args, ret |-> ret]

\* The functions ArroyoSchemaProvider::new registers.
BuiltinFunctions ==
    ("hop" :> create_udf("hop", <<"Interval", "Interval">>, "Struct<window>"))
      @@ ("tumble" :> create_udf("tumble", <<"Interval">>, "Struct<window>"))
      @@ ("get_first_json_object" :>
            create_udf("get_first_json_object", <<"Utf8", "Utf8">>, "Utf8"))
      @@ ("get_json_objects" :>
            create_udf("get_json_objects", <<"Utf8", "Utf8">>, "List<Utf8>"))
      @@ ("extract_json_string" :>
            create_udf("extract_json_string", <<"Utf8", "Utf8">>, "Utf8"))

BuiltinNames == DOMAIN BuiltinFunctions

\* No body of source text / no query.
NoBody == [parses |-> TRUE, items |-> <<>>]

\* A url: whether Url::parse accepts the text, and its scheme.
Url(wellformed, scheme) == [wellformed |-> wellformed, scheme |-> scheme]

\* MqttConfig, as far as test_inner reads it: the url, tls.ca (absent, a
\* certificate file, a file whose PEM section does not decode, a PEM section
\* that is no certificate), tls.cert with tls.key (absent, a pair, a key file
\* without a key) and username / password (absent, values, a reference to an
\* environment variable that is not set).
MqttConfig(url, ca, client_auth, credentials) ==
    [url |-> url, ca |-> ca, client_auth |-> client_auth, credentials |-> credentials]

NoConfig == MqttConfig(Url(FALSE, ""), "None", "None", "None")

\* A result of eventloop.poll(): Ok(notification) or Err.
PollResult(ok, dir, packet, utf8) ==
    [ok |-> ok, dir |-> dir, packet |-> packet, utf8 |-> utf8]

NoPoll == PollResult(TRUE, "None", "None", TRUE)

\* anyhow::Result<String>
Returned(kind, msg) == [kind |-> kind, msg |-> msg]

NoReturn == Returned("None", <<>>)

\* TestSourceMessage::info / done / fail
TestSourceMessage(kind, message) == [kind |-> kind, message |-> message]

info(message) == TestSourceMessage("info", message)

done(message) == TestSourceMessage("done", message)

fail(message) == TestSourceMessage("fail", message)

NoMessage == TestSourceMessage("None", <<>>)

Init ==
    /\ tables = EmptyMap
    /\ functions = BuiltinFunctions
    /\ udf_defs = EmptyMap
    /\ pc = "idle"
    /\ entry = "None"
    /\ query = <<>>
    /\ stmts = <<>>
    /\ idx = 1
    /\ outputs = <<>>
    /\ classified = <<>>
    /\ parsed = FALSE
    /\ plan_result = "None"
    /\ result = "None"
    /\ tables0 = EmptyMap
    /\ udf_pc = "idle"
    /\ udf_body = NoBody
    /\ udf_result = "None"
    /\ udf_done = 0
    /\ functions0 = BuiltinFunctions
    /\ udf_defs0 = EmptyMap
    /\ connections = EmptyMap
    /\ source_defs = EmptyMap
    /\ last_write = EmptyMap
    /\ overwritten = NoTable
    /\ mq_pc = "idle"
    /\ mq_via = "None"
    /\ mq_config = NoConfig
    /\ mq_table = "None"
    /\ native_certs = "Ok"
    /\ wait_for_incomming = FALSE
    /\ mq_last = NoPoll
    /\ mq_ret = NoReturn
    /\ mq_tx = <<>>
    /\ mq_oneshot = NoMessage
    /\ rx_open = TRUE

\* The connector tables a caller registers before compiling.
ConnectorInputs ==
    {ConnectorTable(1, "t", "Source"), ConnectorTable(2, "s", "Sink"),
     ConnectorTable(3, "v", "Source"), ConnectorTable(4, "v", "Sink")}

\* ArroyoSchemaProvider::add_connector_table
add_connector_table(id, name, connector_type) ==
    /\ pc = "idle"
    /\ tables' = HashMapInsert(tables, name, ConnectorTable(id, name, connector_type))
    /\ last_write' = [n \in DOMAIN last_write \cup {name} |->
                         IF n = name
                         THEN ConnectorTable(id, name, connector_type)
                         ELSE last_write[n]]
    /\ overwritten' = IF name \in DOMAIN tables
                         /\ tables[name] # ConnectorTable(id, name, connector_type)
                      THEN tables[name]
                      ELSE NoTable
    /\ UNCHANGED <<mqtt_vars, functions, udf_defs, sql_vars, udf_vars, aux_vars>>

AddConnectorTable ==
    \E c \in ConnectorInputs : add_connector_table(c.id, c.name, c.connector_type)

\* What the caller of an entry point sees when the compilation panics:
\* parse_and_get_program runs it in a spawned task and maps the JoinError to
\* "Something went wrong"; parse_and_get_program_sync unwinds.
Surface(e, outcome) ==
    IF outcome = "Panic" /\ e = "parse_and_get_program"
    THEN "SomethingWentWrong"
    ELSE outcome

\* plan_query up to the start of its loop: Parser::parse_sql on the whole text.
StartPlanQuery(e, q) ==
    LET p == parse_sql(q)
    IN /\ parsed' = TRUE
       /\ stmts' = p.statements
       /\ idx' = 1
       /\ outputs' = <<>>
       /\ classified' = <<>>
       /\ IF ~p.ok
          THEN /\ plan_result' = "SyntaxError"
               /\ result' = "SyntaxError"
               /\ pc' = "done"
          ELSE IF p.statements = <<>>
          THEN /\ plan_result' = "Ok"
               /\ result' = "None"
               /\ pc' = "planned"
          ELSE /\ plan_result' = "None"
               /\ result' = "None"
               /\ pc' = "planning"

\* parse_and_get_program up to its await: rejects an empty query, otherwise
\* spawns a task for parse_and_get_program_sync, with the query and the
\* schema provider moved into it, and is suspended until the task ends.
parse_and_get_program(q) ==
    /\ pc = "idle"
    /\ entry' = "parse_and_get_program"
    /\ query' = q
    /\ tables0' = tables
    /\ IF IsEmpty(Trim(q))
       THEN result' = "EmptyQuery" /\ pc' = "done"
       ELSE result' = "None" /\ pc' = "spawned"
    /\ UNCHANGED <<stmts, idx, outputs, classified, parsed, plan_result>>
    /\ overwritten' = NoTable
    /\ UNCHANGED <<mqtt_vars, catalog_vars, udf_vars, aux_vars, last_write>>

ParseAndGetProgram == pc = "idle" /\ \E q \in Queries : parse_and_get_program(q)

\* The runtime starts the spawned task: parse_and_get_program_sync goes to
\* plan_query.
RunSpawnedTask ==
    /\ pc = "spawned"
    /\ StartPlanQuery(entry, query)
    /\ UNCHANGED <<mqtt_vars, overwritten, catalog_vars, udf_vars, aux_vars, last_write, entry, query,
                   tables0>>

\* parse_and_get_program_sync: goes straight to plan_query.
parse_and_get_program_sync(q) ==
    /\ pc = "idle"
    /\ entry' = "parse_and_get_program_sync"
    /\ query' = q
    /\ tables0' = tables
    /\ StartPlanQuery("parse_and_get_program_sync", q)
    /\ overwritten' = NoTable
    /\ UNCHANGED <<mqtt_vars, catalog_vars, udf_vars, aux_vars, last_write>>

ParseAndGetProgramSync ==
    pc = "idle" /\ \E q \in Queries : parse_and_get_program_sync(q)

\* A loop body that undoes the batch's insertions when a statement fails.
PlanQueryStepRollback ==
    /\ pc = "planning"
    /\ idx <= Len(stmts)
    /\ LET r == process_statement(stmts[idx], tables)
       IN IF r.status = "Ok"
          THEN /\ classified' = Append(classified, r.table)
               /\ IF TableName(r.table).some
                  THEN /\ tables' = insert_table(tables, r.table)
                       /\ outputs' = outputs
                       /\ last_write' = [n \in DOMAIN last_write \cup {r.table.name} |->
                                            IF n = r.table.name THEN r.table
                                            ELSE last_write[n]]
                  ELSE /\ tables' = tables
                       /\ outputs' = Append(outputs, r.table)
                       /\ last_write' = last_write
               /\ idx' = idx + 1
               /\ IF idx = Len(stmts)
                  THEN pc' = "planned" /\ plan_result' = "Ok"
                  ELSE pc' = "planning" /\ plan_result' = "None"
               /\ result' = "None"
          ELSE /\ plan_result' = r.status
               /\ result' = Surface(entry, r.status)
               /\ pc' = "done"
               /\ tables' = tables0
               /\ UNCHANGED <<idx, outputs, classified, last_write>>
    /\ UNCHANGED <<mqtt_vars, overwritten, functions, udf_defs, entry, query, stmts, parsed, tables0, udf_vars,
                   aux_vars>>

\* A loop body that pushes every classified table onto the outputs.
PlanQueryStepPushAll ==
    /\ pc = "planning"
    /\ idx <= Len(stmts)
    /\ LET r == process_statement(stmts[idx], tables)
       IN IF r.status = "Ok"
          THEN /\ classified' = Append(classified, r.table)
               /\ tables' = insert_table(tables, r.table)
               /\ outputs' = Append(outputs, r.table)
               /\ last_write' = IF TableName(r.table).some
                                THEN [n \in DOMAIN last_write \cup {r.table.name} |->
                                         IF n = r.table.name THEN r.table
                                         ELSE last_write[n]]
                                ELSE last_write
               /\ idx' = idx + 1
               /\ IF idx = Len(stmts)
                  THEN pc' = "planned" /\ plan_result' = "Ok"
                  ELSE pc' = "planning" /\ plan_result' = "None"
               /\ result' = "None"
          ELSE /\ plan_result' = r.status
               /\ result' = Surface(entry, r.status)
               /\ pc' = "done"
               /\ UNCHANGED <<tables, idx, outputs, classified, last_write>>
    /\ UNCHANGED <<mqtt_vars, overwritten, functions, udf_defs, entry, query, stmts, parsed, tables0, udf_vars,
                   aux_vars>>

\* A loop body that also stores an INSERT INTO in the catalog, under the
\* name of its sink.
PlanQueryStepStoreInsert ==
    /\ pc = "planning"
    /\ idx <= Len(stmts)
    /\ LET r == process_statement(stmts[idx], tables)
       IN IF r.status = "Ok"
          THEN /\ classified' = Append(classified, r.table)
               /\ IF TableName(r.table).some
                  THEN /\ tables' = insert_table(tables, r.table)
                       /\ outputs' = outputs
                       /\ last_write' = [n \in DOMAIN last_write \cup {r.table.name} |->
                                            IF n = r.table.name THEN r.table
                                            ELSE last_write[n]]
                  ELSE /\ tables' = IF r.table.variant = "InsertQuery"
                                    THEN HashMapInsert(tables, r.table.sink_name, r.table)
                                    ELSE tables
                       /\ outputs' = Append(outputs, r.table)
                       /\ last_write' = last_write
               /\ idx' = idx + 1
               /\ IF idx = Len(stmts)
                  THEN pc' = "planned" /\ plan_result' = "Ok"
                  ELSE pc' = "planning" /\ plan_result' = "None"
               /\ result' = "None"
          ELSE /\ plan_result' = r.status
               /\ result' = Surface(entry, r.status)
               /\ pc' = "done"
               /\ UNCHANGED <<tables, idx, outputs, classified, last_write>>
    /\ UNCHANGED <<mqtt_vars, overwritten, functions, udf_defs, entry, query, stmts, parsed, tables0, udf_vars,
                   aux_vars>>

\* One iteration of plan_query's loop: process_statement on the next
\* statement against the catalog as it is now; a named table goes into the
\* catalog, an unnamed one onto `outputs`; a failure ends plan_query (`?`)
\* and with it the entry point, leaving the catalog as it is.
PlanQueryStep ==
    /\ pc = "planning"
    /\ idx <= Len(stmts)
    /\ LET r == process_statement(stmts[idx], tables)
       IN IF r.status = "Ok"
          THEN /\ classified' = Append(classified, r.table)
               /\ IF TableName(r.table).some
                  THEN /\ tables' = insert_table(tables, r.table)
                       /\ outputs' = outputs
                       /\ last_write' = [n \in DOMAIN last_write \cup {r.table.name} |->
                                            IF n = r.table.name THEN r.table
                                            ELSE last_write[n]]
                  ELSE /\ tables' = tables
                       /\ outputs' = Append(outputs, r.table)
                       /\ last_write' = last_write
               /\ idx' = idx + 1
               /\ IF idx = Len(stmts)
                  THEN pc' = "planned" /\ plan_result' = "Ok"
                  ELSE pc' = "planning" /\ plan_result' = "None"
               /\ result' = "None"
          ELSE /\ plan_result' = r.status
               /\ result' = Surface(entry, r.status)
               /\ pc' = "done"
               /\ UNCHANGED <<tables, idx, outputs, classified, last_write>>
    /\ UNCHANGED <<mqtt_vars, overwritten, functions, udf_defs, entry, query, stmts, parsed, tables0, udf_vars,
                   aux_vars>>

\* SqlPipelineBuilder::new: a builder without output nodes.
SqlPipelineBuilderNew == [output_nodes |-> <<>>]

\* The rest of parse_and_get_program_sync after plan_query returned Ok: the
\* loop over the outputs reaches todo!() on its first element; without
\* outputs the builder has no Sink node and the call bails.
BuildProgram ==
    /\ pc = "planned"
    /\ LET sql_pipeline_builder == SqlPipelineBuilderNew
           outcome ==
               IF outputs # <<>>
               THEN "Panic"
               ELSE IF ~\E n \in Range(sql_pipeline_builder.output_nodes) : n = "Sink"
               THEN "NoSinkDefined"
               ELSE "Ok"
       IN result' = Surface(entry, outcome)
    /\ pc' = "done"
    /\ UNCHANGED <<mqtt_vars, overwritten, catalog_vars, entry, query, stmts, idx, outputs, classified,
                   parsed, plan_result, tables0, udf_vars, aux_vars, last_write>>

\* The entry point has returned (or unwound): its schema provider, which it
\* took by value, is dropped; the caller starts over from
\* ArroyoSchemaProvider::new.
Drop ==
    /\ pc = "done"
    /\ pc' = "idle"
    /\ tables' = EmptyMap
    /\ entry' = "None"
    /\ query' = <<>>
    /\ stmts' = <<>>
    /\ idx' = 1
    /\ outputs' = <<>>
    /\ classified' = <<>>
    /\ parsed' = FALSE
    /\ plan_result' = "None"
    /\ result' = "None"
    /\ tables0' = EmptyMap
    /\ last_write' = EmptyMap
    /\ connections' = EmptyMap
    /\ source_defs' = EmptyMap
    /\ functions' = BuiltinFunctions
    /\ udf_defs' = EmptyMap
    /\ overwritten' = NoTable
    /\ UNCHANGED <<mqtt_vars, udf_vars>>

NextSql ==
    \/ AddConnectorTable
    \/ ParseAndGetProgram
    \/ RunSpawnedTask
    \/ ParseAndGetProgramSync
    \/ PlanQueryStep
    \/ BuildProgram
    \/ Drop

SpecSql == Init /\ [][NextSql]_vars

(***************************************************************************)
(* The catalog of a schema provider: the registrations of its owner, in    *)
(* any order, and then the compilation, which takes the provider by value. *)
(***************************************************************************)
\* The connections and source definitions a caller registers.
ConnectionInputs == {[name |-> "c", config |-> "{}"]}

SourceDefInputs == {[source |-> "src", defs |-> "struct S {}"]}

\* ArroyoSchemaProvider::add_connection
add_connection(connection) ==
    /\ pc = "idle"
    /\ connections' = HashMapInsert(connections, connection.name, connection)
    /\ UNCHANGED <<mqtt_vars, overwritten, catalog_vars, sql_vars, udf_vars, source_defs, last_write>>

AddConnection == \E c \in ConnectionInputs : add_connection(c)

\* ArroyoSchemaProvider::add_defs
add_defs(source, defs) ==
    /\ pc = "idle"
    /\ source_defs' = HashMapInsert(source_defs, source, defs)
    /\ UNCHANGED <<mqtt_vars, overwritten, catalog_vars, sql_vars, udf_vars, connections, last_write>>

AddDefs == \E d \in SourceDefInputs : add_defs(d.source, d.defs)

NextCatalog ==
    \/ AddConnectorTable
    \/ AddConnection
    \/ AddDefs
    \/ ParseAndGetProgramSync
    \/ PlanQueryStep
    \/ BuildProgram
    \/ Drop

SpecCatalog == Init /\ [][NextCatalog]_vars

(***************************************************************************)
(* ArroyoSchemaProvider::add_rust_udf                                      *)
(***************************************************************************)
\* An item of a parsed source file (syn::Item): a function with its
\* visibility, name, parameters (a receiver "self" or the type of a typed
\* parameter), return type ("Default" when none is declared) and block, or
\* an item that is no function.
Fn(vis, ident, inputs, output) ==
    [item |-> "Fn", vis |-> vis, ident |-> ident, inputs |-> inputs,
     output |-> output, block |-> "{ .. }"]

NotFn == [item |-> "Struct", vis |-> "", ident |-> "S", inputs |-> <<>>,
          output |-> "Default", block |-> ""]

\* The items the source texts of the model are made of.
UdfItems ==
    [item : {"Fn"}, vis : {"", "pub"}, ident : {"f", "g"}, inputs : {<<"i64">>},
     output : {"i64"}, block : {"{ .. }"}]
      \cup {Fn("", "f", <<"String", "Option<i64>">>, "String")}
      \cup {Fn("", b, <<"i64">>, "i64") : b \in BuiltinNames}
      \cup {Fn("", "g", <<"self">>, "i64"),
            Fn("", "g", <<"i64">>, "Default"),
            Fn("", "g", <<"Foo">>, "i64"),
            Fn("", "g", <<"i64">>, "Foo"),
            Fn("", "g", <<"Foo">>, "Default")}
      \cup {NotFn}

\* The source texts passed to add_rust_udf: one that syn::parse_file
\* rejects, and the files of up to MaxItems items.
UdfBodies ==
    {[parses |-> FALSE, items |-> <<>>]}
      \cup {[parses |-> TRUE, items |-> its] :
               its \in UNION {[1..n -> UdfItems] : n \in 0..MaxItems}}

\* TryFrom<&syn::Type> for TypeDef: the SQL type of a Rust type with its
\* nullability, or a failure.
TypeDef(data_type, nullable) == [data_type |-> data_type, nullable |-> nullable]

TryIntoTypeDef(ty) ==
    CASE ty = "i64" -> [ok |-> TRUE, def |-> TypeDef("Int64", FALSE)]
      [] ty = "Option<i64>" -> [ok |-> TRUE, def |-> TypeDef("Int64", TRUE)]
      [] ty = "String" -> [ok |-> TRUE, def |-> TypeDef("Utf8", FALSE)]
      [] OTHER -> [ok |-> FALSE, def |-> TypeDef("", FALSE)]

\* TypeDef::as_datatype
as_datatype(t) == t.data_type

\* The loop over function.sig.inputs: the first receiver or unconvertible
\* type ends it with an error.
RECURSIVE ConvertArgs(_, _)
ConvertArgs(inputs, args) ==
    IF inputs = <<>>
    THEN [err |-> "Ok", args |-> args]
    ELSE IF Head(inputs) = "self"
    THEN [err |-> "InvalidSelfParameter", args |-> args]
    ELSE IF ~TryIntoTypeDef(Head(inputs)).ok
    THEN [err |-> "UnsupportedType", args |-> args]
    ELSE ConvertArgs(Tail(inputs), Append(args, TryIntoTypeDef(Head(inputs)).def))

\* The match on function.sig.output.
ConvertRet(output) ==
    IF output = "Default"
    THEN [err |-> "MissingReturnType", ret |-> TypeDef("", FALSE)]
    ELSE IF ~TryIntoTypeDef(output).ok
    THEN [err |-> "UnsupportedType", ret |-> TypeDef("", FALSE)]
    ELSE [err |-> "Ok", ret |-> TryIntoTypeDef(output).def]

\* function.to_token_stream().to_string(): the function printed from its
\* tokens, visibility first.
ToTokenString(function) ==
    [vis |-> function.vis, ident |-> function.ident, inputs |-> function.inputs,
     output |-> function.output, block |-> function.block]

\* function.vis = Visibility::Public(..)
SetPublic(function) == [function EXCEPT !.vis = "pub"]

\* A loop body that registers the scalar function without storing a UdfDef.
RegisterItemNoDef(cat, it) ==
    LET a == ConvertArgs(it.inputs, <<>>)
        r == ConvertRet(it.output)
        udf == create_udf(it.ident,
                          [i \in 1..Len(a.args) |-> as_datatype(a.args[i])],
                          as_datatype(r.ret))
    IN IF it.item # "Fn" THEN [cat EXCEPT !.err = "NotAFunction"]
       ELSE IF a.err # "Ok" THEN [cat EXCEPT !.err = a.err]
       ELSE IF r.err # "Ok" THEN [cat EXCEPT !.err = r.err]
       ELSE IF InsertedOverExisting(cat.functions, it.ident)
       THEN [cat EXCEPT !.functions = HashMapInsert(cat.functions, it.ident, udf),
                        !.err = "NameCollision"]
       ELSE [cat EXCEPT !.functions = HashMapInsert(cat.functions, it.ident, udf),
                        !.done = cat.done + 1]

\* A loop body that registers the scalar function before it looks at the
\* return type.
RegisterItemEarly(cat, it) ==
    LET a == ConvertArgs(it.inputs, <<>>)
        r == ConvertRet(it.output)
        early == create_udf(it.ident,
                            [i \in 1..Len(a.args) |-> as_datatype(a.args[i])], "")
        udf == create_udf(it.ident,
                          [i \in 1..Len(a.args) |-> as_datatype(a.args[i])],
                          as_datatype(r.ret))
    IN IF it.item # "Fn" THEN [cat EXCEPT !.err = "NotAFunction"]
       ELSE IF a.err # "Ok" THEN [cat EXCEPT !.err = a.err]
       ELSE IF r.err # "Ok"
       THEN [cat EXCEPT !.functions = HashMapInsert(cat.functions, it.ident, early),
                        !.err = r.err]
       ELSE IF InsertedOverExisting(cat.functions, it.ident)
       THEN [cat EXCEPT !.functions = HashMapInsert(cat.functions, it.ident, udf),
                        !.err = "NameCollision"]
       ELSE [cat EXCEPT !.functions = HashMapInsert(cat.functions, it.ident, udf),
                        !.udf_defs = HashMapInsert(cat.udf_defs, it.ident,
                                        [args |-> a.args, ret |-> r.ret,
                                         def |-> ToTokenString(SetPublic(it))]),
                        !.done = cat.done + 1]

\* One iteration of the loop over file.items: the item must be a function,
\* its parameters and return type must convert, and the scalar function is
\* inserted under the function's name; if the insert replaced an entry the
\* call bails, otherwise the UdfDef is stored with the function made public.
RegisterItem(cat, it) ==
    LET a == ConvertArgs(it.inputs, <<>>)
        r == ConvertRet(it.output)
        udf == create_udf(it.ident,
                          [i \in 1..Len(a.args) |-> as_datatype(a.args[i])],
                          as_datatype(r.ret))
    IN IF it.item # "Fn" THEN [cat EXCEPT !.err = "NotAFunction"]
       ELSE IF a.err # "Ok" THEN [cat EXCEPT !.err = a.err]
       ELSE IF r.err # "Ok" THEN [cat EXCEPT !.err = r.err]
       ELSE IF InsertedOverExisting(cat.functions, it.ident)
       THEN [cat EXCEPT !.functions = HashMapInsert(cat.functions, it.ident, udf),
                        !.err = "NameCollision"]
       ELSE [cat EXCEPT !.functions = HashMapInsert(cat.functions, it.ident, udf),
                        !.udf_defs = HashMapInsert(cat.udf_defs, it.ident,
                                        [args |-> a.args, ret |-> r.ret,
                                         def |-> ToTokenString(SetPublic(it))]),
                        !.done = cat.done + 1]

\* The loop over file.items: it ends at the first item that fails.
RECURSIVE RegisterItems(_, _)
RegisterItems(cat, items) ==
    IF items = <<>>
    THEN cat
    ELSE LET next == RegisterItem(cat, Head(items))
         IN IF next.err # "Ok" THEN next ELSE RegisterItems(next, Tail(items))

\* add_rust_udf(body)
add_rust_udf(body) ==
    /\ udf_pc = "idle"
    /\ LET start == [functions |-> functions, udf_defs |-> udf_defs,
                     err |-> "Ok", done |-> 0]
           out == IF ~body.parses
                  THEN [start EXCEPT !.err = "ParseError"]
                  ELSE RegisterItems(start, body.items)
       IN /\ functions' = out.functions
          /\ udf_defs' = out.udf_defs
          /\ udf_result' = out.err
          /\ udf_done' = out.done
    /\ udf_body' = body
    /\ functions0' = functions
    /\ udf_defs0' = udf_defs
    /\ udf_pc' = "returned"
    /\ UNCHANGED <<mqtt_vars, overwritten, tables, sql_vars, aux_vars, last_write>>

AddRustUdf == udf_pc = "idle" /\ \E body \in UdfBodies : add_rust_udf(body)

\* The caller of add_rust_udf takes the result and goes on.
UdfReturn ==
    /\ udf_pc = "returned"
    /\ udf_pc' = "idle"
    /\ udf_body' = NoBody
    /\ udf_result' = "None"
    /\ udf_done' = 0
    /\ functions0' = BuiltinFunctions
    /\ udf_defs0' = EmptyMap
    /\ UNCHANGED <<mqtt_vars, overwritten, catalog_vars, sql_vars, aux_vars, last_write>>

\* ContextProvider::get_function_meta
get_function_meta(name) ==
    IF name \in DOMAIN functions
    THEN [some |-> TRUE, udf |-> functions[name]]
    ELSE [some |-> FALSE, udf |-> create_udf("", <<>>, "")]

NextUdf ==
    \/ AddRustUdf
    \/ UdfReturn

SpecUdf == Init /\ [][NextUdf]_vars

(***************************************************************************)
(* The MQTT connector's connectivity test (arroyo-connectors/src/mqtt.rs): *)
(* test and test_profile spawn a task that runs test_inner and reports.    *)
(***************************************************************************)
Urls ==
    {Url(TRUE, sch) : sch \in {"mqtt", "mqtts", "ssl", "http"}} \cup {Url(FALSE, "")}

MqttConfigs ==
    [url : Urls,
     ca : {"None", "Valid", "BadPem", "InvalidCert"},
     client_auth : {"None", "Valid", "NoPrivateKey"},
     credentials : {"None", "Valid", "MissingEnvVar"}]

\* TableType of the MqttTable passed to test.
TableTypes == {"Source", "Sink"}

\* matches!(url.scheme(), "mqtts" | "ssl")
IsSsl(url) == url.scheme \in {"mqtts", "ssl"}

\* test_inner from Url::parse up to AsyncClient::new: every `?` returns the
\* error, expect / unwrap on an Err panic.
Configure(c, certs) ==
    IF ~c.url.wellformed
    THEN Returned("Err", <<"relative URL without a base">>)
    ELSE IF c.url.scheme \notin {"mqtt", "mqtts", "ssl"}
    THEN Returned("Err", <<"Unsupported URL scheme.">>)
    ELSE IF IsSsl(c.url) /\ certs = "Unreadable"
    THEN Returned("Panic", <<"could not load platform certs">>)
    ELSE IF IsSsl(c.url) /\ c.ca = "BadPem"
    THEN Returned("Err", <<"invalid PEM">>)
    ELSE IF IsSsl(c.url) /\ c.ca = "InvalidCert"
    THEN Returned("Panic", <<"called Result::unwrap() on an Err value">>)
    ELSE IF IsSsl(c.url) /\ c.client_auth = "NoPrivateKey"
    THEN Returned("Err", <<"No private key found">>)
    ELSE IF c.credentials = "MissingEnvVar"
    THEN Returned("Err", <<"environment variable not found">>)
    ELSE Returned("Ok", <<>>)

\* The notifications and errors eventloop.poll() delivers.
PollResults ==
    {PollResult(TRUE, "Incoming", "Publish", TRUE),
     PollResult(TRUE, "Incoming", "Publish", FALSE),
     PollResult(TRUE, "Outgoing", "Publish", TRUE),
     PollResult(TRUE, "Incoming", "Disconnect", TRUE),
     PollResult(TRUE, "Outgoing", "Disconnect", TRUE),
     PollResult(TRUE, "Incoming", "ConnAck", TRUE),
     PollResult(TRUE, "Incoming", "SubAck", TRUE),
     PollResult(TRUE, "Outgoing", "PingReq", TRUE),
     PollResult(TRUE, "Incoming", "PingResp", TRUE),
     PollResult(FALSE, "None", "ConnectionError", TRUE)}

\* A loop body that takes any publish, outgoing ones included, as success.
LoopBodyAnyPublish(wait, p) ==
    IF ~p.ok
    THEN Returned("Err", <<"Error while reading from Mqtt", p.packet>>)
    ELSE IF p.packet = "Publish" /\ p.dir = "Incoming" /\ wait
    THEN Returned("Ok", <<"Successfully subscribed">>)
    ELSE IF p.packet = "Publish"
    THEN Returned("Ok", <<"Successfully published">>)
    ELSE IF p.packet = "Disconnect"
    THEN Returned("Err", <<"Disconnected from Mqtt">>)
    ELSE NoReturn

\* The body of test_inner's loop on one poll result: what it returns, or
\* NoReturn when it goes on polling.
LoopBody(wait, p) ==
    IF ~p.ok
    THEN Returned("Err", <<"Error while reading from Mqtt", p.packet>>)
    ELSE IF p.dir = "Incoming" /\ p.packet = "Publish"
    THEN IF p.utf8
         THEN Returned("Ok", <<"Successfully subscribed">>)
         ELSE Returned("Err", <<"invalid utf-8 sequence">>)
    ELSE IF p.dir = "Outgoing" /\ p.packet = "Publish"
    THEN IF ~wait
         THEN Returned("Ok", <<"Successfully published">>)
         ELSE NoReturn
    ELSE IF p.packet = "Disconnect"
    THEN Returned("Err", <<"Disconnected from Mqtt">>)
    ELSE NoReturn

\* MqttConnector::test: spawns the task.
test(config, table) ==
    /\ mq_pc = "idle"
    /\ mq_pc' = "spawned"
    /\ mq_via' = "test"
    /\ mq_config' = config
    /\ mq_table' = table
    /\ UNCHANGED <<compiler_vars, native_certs, wait_for_incomming, mq_last, mq_ret,
                   mq_tx, mq_oneshot, rx_open>>

Test == mq_pc = "idle" /\ \E c \in MqttConfigs, t \in TableTypes : test(c, t)

\* MqttConnector::test_profile: spawns the task, without a table.
test_profile(profile) ==
    /\ mq_pc = "idle"
    /\ mq_pc' = "spawned"
    /\ mq_via' = "test_profile"
    /\ mq_config' = profile
    /\ mq_table' = "None"
    /\ UNCHANGED <<compiler_vars, native_certs, wait_for_incomming, mq_last, mq_ret,
                   mq_tx, mq_oneshot, rx_open>>

TestProfile == mq_pc = "idle" /\ \E c \in MqttConfigs : test_profile(c)

\* The caller drops the receiver of the channel the result is to be sent on.
CloseReceiver ==
    /\ mq_pc # "idle"
    /\ rx_open
    /\ rx_open' = FALSE
    /\ UNCHANGED <<compiler_vars, mq_pc, mq_via, mq_config, mq_table, native_certs,
                   wait_for_incomming, mq_last, mq_ret, mq_tx, mq_oneshot>>

\* test_inner's first statement: tx.send(info("Connecting to Mqtt")).await
\* .unwrap(). In test the channel is the caller's; in test_profile it is a
\* channel of the task itself, whose receiver lives as long as the task.
TestInnerStart ==
    /\ mq_pc = "spawned"
    /\ IF mq_via = "test" /\ ~rx_open
       THEN mq_pc' = "panicked" /\ mq_tx' = mq_tx
       ELSE /\ mq_pc' = "configuring"
            /\ mq_tx' = Append(mq_tx, info(<<"Connecting to Mqtt">>))
    /\ UNCHANGED <<compiler_vars, mq_via, mq_config, mq_table, native_certs,
                   wait_for_incomming, mq_last, mq_ret, mq_oneshot, rx_open>>

\* What load_native_certs() can give: the platform's certificates, or an
\* error.
NativeCerts == {"Ok", "Unreadable"}

\* test_inner from Url::parse to AsyncClient::new; with a Source table the
\* subscribe comes next, otherwise the publish.
TestInnerConfigure ==
    /\ mq_pc = "configuring"
    /\ \E certs \in NativeCerts :
          /\ native_certs' = IF mq_config.url.wellformed /\ IsSsl(mq_config.url)
                             THEN certs
                             ELSE native_certs
          /\ LET r == Configure(mq_config, certs)
             IN IF r.kind = "Ok"
                THEN /\ mq_pc' = IF mq_table = "Source" THEN "subscribing"
                                 ELSE "publishing"
                     /\ UNCHANGED <<mq_ret, wait_for_incomming>>
                ELSE IF r.kind = "Err"
                THEN /\ mq_pc' = "returned"
                     /\ mq_ret' = r
                     /\ wait_for_incomming' = wait_for_incomming
                ELSE /\ mq_pc' = "panicked"
                     /\ UNCHANGED <<mq_ret, wait_for_incomming>>
    /\ UNCHANGED <<compiler_vars, mq_via, mq_config, mq_table, mq_last,
                   mq_tx, mq_oneshot, rx_open>>

\* What a request to the client can give: Ok, or a ClientError.
ClientResults == {"Ok", "ClientError"}

\* client.subscribe(&topic, qos).await?, with a Source table.
TestInnerSubscribe ==
    /\ mq_pc = "subscribing"
    /\ \E res \in ClientResults :
          IF res = "Ok"
          THEN mq_pc' = "publishing" /\ mq_ret' = mq_ret
          ELSE mq_pc' = "returned" /\ mq_ret' = Returned("Err", <<"subscribe", res>>)
    /\ UNCHANGED <<compiler_vars, mq_via, mq_config, mq_table, native_certs,
                   wait_for_incomming, mq_last, mq_tx, mq_oneshot, rx_open>>

\* client.publish(..).await? of the probe message; the value of the match
\* on the table is wait_for_incomming: true with a Source table only.
TestInnerPublish ==
    /\ mq_pc = "publishing"
    /\ \E res \in ClientResults :
          IF res = "Ok"
          THEN /\ mq_pc' = "polling"
               /\ wait_for_incomming' = (mq_table = "Source")
               /\ mq_ret' = mq_ret
          ELSE /\ mq_pc' = "returned"
               /\ mq_ret' = Returned("Err", <<"publish", res>>)
               /\ wait_for_incomming' = wait_for_incomming
    /\ UNCHANGED <<compiler_vars, mq_via, mq_config, mq_table, native_certs,
                   mq_last, mq_tx, mq_oneshot, rx_open>>

\* One iteration of test_inner's loop.
TestInnerPoll ==
    /\ mq_pc = "polling"
    /\ \E p \in PollResults :
          /\ mq_last' = p
          /\ LET r == LoopBody(wait_for_incomming, p)
             IN IF r = NoReturn
                THEN mq_pc' = "polling" /\ mq_ret' = mq_ret
                ELSE mq_pc' = "returned" /\ mq_ret' = r
    /\ UNCHANGED <<compiler_vars, mq_via, mq_config, mq_table, native_certs,
                   wait_for_incomming, mq_tx, mq_oneshot, rx_open>>

\* The task of test after test_inner: done(c) on Ok(c), fail(e.to_string())
\* on Err(e), sent on the caller's channel; send(..).await.unwrap().
TestReport ==
    /\ mq_pc = "returned"
    /\ mq_via = "test"
    /\ LET resp == IF mq_ret.kind = "Ok" THEN done(mq_ret.msg) ELSE fail(mq_ret.msg)
       IN IF rx_open
          THEN mq_pc' = "finished" /\ mq_tx' = Append(mq_tx, resp)
          ELSE mq_pc' = "panicked" /\ mq_tx' = mq_tx
    /\ UNCHANGED <<compiler_vars, mq_via, mq_config, mq_table, native_certs,
                   wait_for_incomming, mq_last, mq_ret, mq_oneshot, rx_open>>

\* The task of test_profile after test_inner: one message on the oneshot
\* channel; tx.send(message).unwrap().
TestProfileReport ==
    /\ mq_pc = "returned"
    /\ mq_via = "test_profile"
    /\ LET message ==
               IF mq_ret.kind = "Ok"
               THEN done(<<"Successfully connected to Mqtt">>)
               ELSE fail(<<"Failed to connect to Mqtt: ">> \o mq_ret.msg)
       IN IF rx_open
          THEN mq_pc' = "finished" /\ mq_oneshot' = message
          ELSE mq_pc' = "panicked" /\ mq_oneshot' = mq_oneshot
    /\ UNCHANGED <<compiler_vars, mq_via, mq_config, mq_table, native_certs,
                   wait_for_incomming, mq_last, mq_ret, mq_tx, rx_open>>

\* The steps of the spawned task.
MqttTask ==
    \/ TestInnerStart
    \/ TestInnerConfigure
    \/ TestInnerSubscribe
    \/ TestInnerPublish
    \/ TestInnerPoll
    \/ TestReport
    \/ TestProfileReport

NextMqtt ==
    \/ Test
    \/ TestProfile
    \/ CloseReceiver
    \/ MqttTask

SpecMqtt == Init /\ [][NextMqtt]_vars

\* The runtime keeps running the spawned task.
SpecMqttFair == Init /\ [][NextMqtt]_vars /\ WF_vars(MqttTask)

(***************************************************************************)
(* Properties of the compilation entry points                              *)
(***************************************************************************)
\* The query text holds nothing but whitespace.
IsBlank(q) == \A i \in DOMAIN q : q[i].kind = "WS"

\* A compilation is under way or has ended, and its state is still there.
InCall == pc # "idle"

\* C1: a query text that is empty or only whitespace makes every entry point
\* fail with EmptyQuery, before the SQL parser is invoked and with the
\* catalog untouched.
C1_EmptyQueryBeforeParsing ==
    (InCall /\ IsBlank(query)) =>
        /\ ~parsed
        /\ tables = tables0
        /\ (pc = "done" => result = "EmptyQuery")

\* Every statement of the batch was planned, and none of them is an insert
\* or reads a Sink connector table: the batch produces no Sink operator.
ZeroSinkBatch ==
    /\ stmts # <<>>
    /\ plan_result = "Ok"
    /\ \A i \in DOMAIN stmts :
          /\ stmts[i].kind \in {"CreateView", "CreateTableAs", "Select"}
          /\ (stmts[i].from \in DOMAIN tables0 =>
                 tables0[stmts[i].from].connector_type # "Sink")

\* C2: a non-empty batch that produces zero Sink operators ends with the
\* NoSinkDefined failure and in no other way.
C2_ZeroSinksFailNoSinkDefined ==
    (pc = "done" /\ ZeroSinkBatch) => result = "NoSinkDefined"

\* The catalog held a Source table t and a Sink table s when the entry point
\* was called, and the batch, all of whose statements were planned, holds
\* INSERT INTO s SELECT * FROM t.
InsertIntoSinkBatch ==
    /\ "t" \in DOMAIN tables0
    /\ tables0["t"].variant = "ConnectorTable"
    /\ tables0["t"].connector_type = "Source"
    /\ "s" \in DOMAIN tables0
    /\ tables0["s"].variant = "ConnectorTable"
    /\ tables0["s"].connector_type = "Sink"
    /\ plan_result = "Ok"
    /\ \E i \in DOMAIN stmts : stmts[i] = Token("Insert", "s", "t")

\* C3: with a Source and a Sink connector table in the catalog, a valid batch
\* with an INSERT INTO the sink from the source compiles to a Program.
C3_InsertIntoSinkCompiles ==
    (pc = "done" /\ InsertIntoSinkBatch) => result = "Ok"

\* C4: process_statement classifies a planned statement by its optimized
\* plan: CREATE VIEW / CREATE TABLE AS give a TableFromQuery with the declared
\* name and the input plan, INSERT INTO gives an InsertQuery with the sink
\* name and the input plan, anything else (non-insert DML included) gives an
\* Anonymous table with the whole optimized plan.
C4_Classification ==
    \A k \in DOMAIN classified :
        LET st == stmts[k]
            tb == classified[k]
        IN CASE st.kind \in {"CreateView", "CreateTableAs"} ->
                   /\ tb.variant = "TableFromQuery"
                   /\ tb.name = st.name
                   /\ tb.logical_plan.node = "Projection"
                   /\ tb.logical_plan.scan = st.from
             [] st.kind = "Insert" ->
                   /\ tb.variant = "InsertQuery"
                   /\ tb.sink_name = st.name
                   /\ tb.logical_plan.node = "Projection"
                   /\ tb.logical_plan.scan = st.from
             [] st.kind = "Update" ->
                   /\ tb.variant = "Anonymous"
                   /\ tb.logical_plan.node = "Dml"
                   /\ tb.logical_plan.op = "Update"
                   /\ tb.logical_plan.name = st.name
             [] OTHER ->
                   /\ tb.variant = "Anonymous"
                   /\ tb.logical_plan.node = "Projection"
                   /\ tb.logical_plan.scan = st.from

\* A batch with a CREATE TABLE AS, an INSERT INTO and an UPDATE was classified.
C4_Witness ==
    /\ Len(classified) = 3
    /\ stmts[1].kind = "CreateTableAs"
    /\ stmts[2].kind = "Insert"
    /\ stmts[3].kind = "Update"
    /\ classified[3].variant = "Anonymous"

IsNamedStatement(st) == st.kind \in {"CreateView", "CreateTableAs"}

IsUnnamedStatement(st) == ~IsNamedStatement(st)

\* The last statement among the first n that declares the name nm.
LastDeclaring(nm, n) ==
    CHOOSE j \in 1..n :
        /\ IsNamedStatement(stmts[j]) /\ stmts[j].name = nm
        /\ \A l \in (j + 1)..n : ~(IsNamedStatement(stmts[l]) /\ stmts[l].name = nm)

\* The names the first n statements declare.
DeclaredBy(n) == {stmts[j].name : j \in {l \in 1..n : IsNamedStatement(stmts[l])}}

\* C5: when plan_query succeeds, each statement's table went to exactly one
\* place: a named table into the catalog, an unnamed one onto the output
\* list, which holds exactly the unnamed tables in the order of their
\* statements, none dropped or duplicated.
C5_OutputsAreTheUnnamedInOrder ==
    plan_result = "Ok" =>
        LET unnamed == SelectSeq(stmts, IsUnnamedStatement)
        IN /\ Len(outputs) = Len(unnamed)
           /\ \A i \in DOMAIN outputs :
                 /\ outputs[i].variant =
                       (IF unnamed[i].kind = "Insert" THEN "InsertQuery" ELSE "Anonymous")
                 /\ outputs[i].name = ""
                 /\ outputs[i].logical_plan.scan = unnamed[i].from
           /\ \A nm \in DeclaredBy(Len(stmts)) :
                 /\ nm \in DOMAIN tables
                 /\ tables[nm].variant = "TableFromQuery"
                 /\ tables[nm].name = nm
                 /\ tables[nm].logical_plan.scan = stmts[LastDeclaring(nm, Len(stmts))].from
           /\ \A nm \in DOMAIN tables :
                 tables[nm].variant \in {"ConnectorTable", "TableFromQuery"}

\* plan_query succeeded on a view and two different unnamed statements.
C5_Witness ==
    /\ plan_result = "Ok"
    /\ Len(stmts) = 3
    /\ Len(outputs) = 2
    /\ outputs[1].variant = "InsertQuery"
    /\ outputs[2].variant = "Anonymous"
    /\ "v" \in DOMAIN tables

\* The tables statement k can see: those of the catalog at the call and
\* those declared by statements 1..k-1.
Visible(k) == DOMAIN tables0 \cup DeclaredBy(k - 1)

\* C6: statements are resolved in source order against the catalog as it
\* stands: every statement that was planned referenced only tables visible to
\* it, the catalog after k statements holds exactly the tables visible to
\* statement k+1, and a statement fails with UnknownTable exactly for a
\* reference to a table not visible to it (a view of a later statement or of
\* itself); CREATE VIEW v AS SELECT * FROM t; SELECT * FROM v yields one output.
C6_ResolvedInSourceOrder ==
    (InCall /\ parsed /\ plan_result # "SyntaxError") =>
        /\ \A k \in DOMAIN classified : ReferencedTables(stmts[k]) \subseteq Visible(k)
        /\ DOMAIN tables = Visible(Len(classified) + 1)
        /\ (plan_result = "UnknownTable" =>
               ~(ReferencedTables(stmts[idx]) \subseteq Visible(idx)))
        /\ (plan_result = "Panic" => stmts[idx].kind = "CreateTable")
        /\ ((/\ stmts = <<Token("CreateView", "v", "t"), Token("Select", "", "v")>>
             /\ "t" \in DOMAIN tables0
             /\ pc \in {"planned", "done"})
               => /\ plan_result = "Ok"
                  /\ Len(outputs) = 1
                  /\ tables["v"].variant = "TableFromQuery")

\* CREATE VIEW v AS SELECT * FROM t; SELECT * FROM v was planned against a
\* catalog without v.
C6_Witness ==
    /\ pc = "planned"
    /\ stmts = <<Token("CreateView", "v", "t"), Token("Select", "", "v")>>
    /\ "v" \notin DOMAIN tables0
    /\ "v" \in DOMAIN tables
    /\ Len(outputs) = 1

\* The catalog after the first n statements were classified, from the
\* catalog at the call.
CatalogAfter(n) ==
    [nm \in DOMAIN tables0 \cup DeclaredBy(n) |->
        IF nm \in DeclaredBy(n)
        THEN TableFromQuery(nm, QueryPlan(stmts[LastDeclaring(nm, n)].from))
        ELSE tables0[nm]]

\* C7: when a statement fails after earlier ones were classified, plan_query
\* returns the failure and the catalog keeps exactly the named tables of the
\* statements before the failing one: nothing is rolled back and no later
\* statement is processed.
C7_NoRollbackOnFailure ==
    (pc = "done" /\ plan_result \in {"UnknownTable", "Panic"}) =>
        /\ Len(classified) = idx - 1
        /\ tables = CatalogAfter(idx - 1)
        /\ (plan_result = "UnknownTable" => result = "UnknownTable")

\* The second of three statements failed after a view was created; the third
\* would have created a table.
C7_Witness ==
    /\ pc = "done"
    /\ plan_result = "UnknownTable"
    /\ Len(stmts) = 3
    /\ idx = 2
    /\ stmts[1].kind = "CreateView"
    /\ IsNamedStatement(stmts[3])
    /\ "v" \in DOMAIN tables
    /\ "v" \notin DOMAIN tables0

(***************************************************************************)
(* Properties of add_rust_udf                                              *)
(***************************************************************************)
\* add_rust_udf has returned from a call on a source text that parsed.
UdfReturned == udf_pc = "returned" /\ udf_body.parses

\* The loop of add_rust_udf ended at an item, which is the one after the
\* items it completed.
UdfStoppedAtItem == UdfReturned /\ udf_done < Len(udf_body.items)

FailingItem == udf_body.items[udf_done + 1]

\* The names of the functions the call registered before it ended.
RegisteredNames == {udf_body.items[i].ident : i \in 1..udf_done}

HasReceiver(f) == \E i \in DOMAIN f.inputs : f.inputs[i] = "self"

MissingReturn(f) == f.output = "Default"

HasUnsupportedType(f) ==
    \/ \E i \in DOMAIN f.inputs : f.inputs[i] # "self" /\ ~TryIntoTypeDef(f.inputs[i]).ok
    \/ f.output # "Default" /\ ~TryIntoTypeDef(f.output).ok

SignatureDefect(f) == HasReceiver(f) \/ MissingReturn(f) \/ HasUnsupportedType(f)

\* The declared parameter types and return type of a function, as TypeDefs.
DeclaredArgs(f) == [i \in DOMAIN f.inputs |-> TryIntoTypeDef(f.inputs[i]).def]

DeclaredRet(f) == TryIntoTypeDef(f.output).def

\* C8: registering a function with the name of a built-in fails with
\* NameCollision and leaves the built-in in place: afterwards the function
\* entry of that name is still the original built-in, and udf_defs has no
\* entry for it.
C8_BuiltinRejectedNotShadowed ==
    (/\ UdfStoppedAtItem
     /\ FailingItem.item = "Fn"
     /\ ~SignatureDefect(FailingItem)
     /\ FailingItem.ident \in BuiltinNames) =>
        /\ udf_result = "NameCollision"
        /\ functions[FailingItem.ident] = BuiltinFunctions[FailingItem.ident]
        /\ FailingItem.ident \notin DOMAIN udf_defs

\* C9: add_rust_udf rejects a function by its declared signature: a receiver
\* gives InvalidSelfParameter, a missing return type MissingReturnType, an
\* unconvertible parameter or return type UnsupportedType (the error names a
\* defect the signature has, and the defect when it has one kind only), no
\* function with such a defect is registered, and the rejected function is
\* added to neither the function registry nor udf_defs.
C9_RejectedBySignature ==
    UdfReturned =>
        /\ \A i \in 1..udf_done :
              /\ udf_body.items[i].item = "Fn"
              /\ ~SignatureDefect(udf_body.items[i])
        /\ (UdfStoppedAtItem /\ FailingItem.item = "Fn" /\ SignatureDefect(FailingItem)) =>
              /\ udf_result \in {"InvalidSelfParameter", "MissingReturnType", "UnsupportedType"}
              /\ (udf_result = "InvalidSelfParameter" => HasReceiver(FailingItem))
              /\ (udf_result = "MissingReturnType" => MissingReturn(FailingItem))
              /\ (udf_result = "UnsupportedType" => HasUnsupportedType(FailingItem))
              /\ (HasReceiver(FailingItem) /\ ~MissingReturn(FailingItem)
                     /\ ~HasUnsupportedType(FailingItem)
                    => udf_result = "InvalidSelfParameter")
              /\ (MissingReturn(FailingItem) /\ ~HasReceiver(FailingItem)
                     /\ ~HasUnsupportedType(FailingItem)
                    => udf_result = "MissingReturnType")
              /\ (HasUnsupportedType(FailingItem) /\ ~HasReceiver(FailingItem)
                     /\ ~MissingReturn(FailingItem)
                    => udf_result = "UnsupportedType")
              /\ DOMAIN functions = DOMAIN functions0 \cup RegisteredNames
              /\ DOMAIN udf_defs = DOMAIN udf_defs0 \cup RegisteredNames
              /\ \A n \in DOMAIN functions0 : functions[n] = functions0[n]
              /\ \A n \in DOMAIN udf_defs0 : udf_defs[n] = udf_defs0[n]
              /\ \A i \in 1..udf_done :
                    functions[udf_body.items[i].ident].args =
                       [j \in DOMAIN udf_body.items[i].inputs |->
                           DeclaredArgs(udf_body.items[i])[j].data_type]

\* A function without a return type was rejected after the function before
\* it in the same text had been registered.
C9_Witness ==
    /\ UdfStoppedAtItem
    /\ udf_done = 1
    /\ udf_result = "MissingReturnType"
    /\ FailingItem.ident \notin DOMAIN functions

\* After a successful add_rust_udf every function of the text resolves as a
\* scalar function with the declared types, udf_defs holds its UdfDef with
\* the declared argument and return types and with `def` the function as
\* printed from its tokens (with its visibility made public if as_stored,
\* as it stands in the source text otherwise), and what was registered
\* before is unchanged.
RegisteredOnSuccess(as_stored) ==
    (udf_pc = "returned" /\ udf_result = "Ok") =>
        /\ udf_done = Len(udf_body.items)
        /\ \A i \in DOMAIN udf_body.items :
              LET f == udf_body.items[i]
              IN /\ get_function_meta(f.ident).some
                 /\ get_function_meta(f.ident).udf.name = f.ident
                 /\ get_function_meta(f.ident).udf.args =
                       [j \in DOMAIN f.inputs |-> DeclaredArgs(f)[j].data_type]
                 /\ get_function_meta(f.ident).udf.ret = DeclaredRet(f).data_type
                 /\ f.ident \in DOMAIN udf_defs
                 /\ udf_defs[f.ident].args = DeclaredArgs(f)
                 /\ udf_defs[f.ident].ret = DeclaredRet(f)
                 /\ udf_defs[f.ident].def =
                       [vis |-> IF as_stored THEN "pub" ELSE f.vis, ident |-> f.ident,
                        inputs |-> f.inputs, output |-> f.output, block |-> f.block]
        /\ \A n \in DOMAIN functions0 : n \in DOMAIN functions /\ functions[n] = functions0[n]
        /\ \A n \in DOMAIN udf_defs0 : n \in DOMAIN udf_defs /\ udf_defs[n] = udf_defs0[n]

\* C10 as stated: the UdfDef holds the function's source text.
C10_UdfDefHoldsSourceText == RegisteredOnSuccess(FALSE)

\* C10 as amended: the UdfDef holds the function printed from its tokens
\* with its visibility set to pub.
C10_UdfDefHoldsPublicFunction == RegisteredOnSuccess(TRUE)

\* A text with two functions, the first one private, was registered on top
\* of an earlier registration.
C10_Witness ==
    /\ udf_pc = "returned"
    /\ udf_result = "Ok"
    /\ Len(udf_body.items) = 2
    /\ udf_body.items[1].vis = ""
    /\ udf_body.items[2].vis = "pub"
    /\ udf_defs[udf_body.items[1].ident].def.vis = "pub"

(***************************************************************************)
(* Failures of statement processing                                        *)
(***************************************************************************)
\* The failures plan_query can return as an error value.
TypedFailures == {"SyntaxError", "UnknownTable"}

\* C13: statement processing never aborts: when plan_query ends without
\* success, it ended with a typed failure (a CREATE TABLE without a query
\* included), and the entry point reports that same failure.
C13_FailuresAreTypedValues ==
    (pc = "done" /\ parsed /\ plan_result # "Ok") =>
        /\ plan_result \in TypedFailures
        /\ result = plan_result

\* The query text holds a malformed statement.
HasMalformed(q) == \E i \in DOMAIN q : q[i].kind = "Malformed"

\* C19: when a statement of the text is malformed, plan_query fails with
\* SyntaxError before it processes any statement: no statement has been
\* classified, nothing is on the outputs, and the catalog is as it was
\* before the call, views declared ahead of the malformed statement included.
C19_SyntaxErrorBeforeAnyStatement ==
    (InCall /\ parsed /\ HasMalformed(query)) =>
        /\ pc = "done"
        /\ plan_result = "SyntaxError"
        /\ result = "SyntaxError"
        /\ classified = <<>>
        /\ outputs = <<>>
        /\ tables = tables0

\* A text with a well-formed CREATE VIEW over a registered table ahead of a
\* malformed statement has failed, and the view is not in the catalog.
C19_Witness ==
    /\ pc = "done"
    /\ plan_result = "SyntaxError"
    /\ Len(query) >= 2
    /\ query[1].kind = "CreateView"
    /\ query[1].from \in DOMAIN tables
    /\ query[1].name \notin DOMAIN tables
    /\ query[2].kind = "Malformed"

(***************************************************************************)
(* Consistency of the function registry and udf_defs                       *)
(***************************************************************************)
\* C18: functions and udf_defs stay consistent: the function registered
\* under a name of udf_defs has the argument and return types of the
\* UdfDef, every function that is no built-in has a UdfDef, and a call whose
\* first function has the name of a registered UDF fails with NameCollision
\* and leaves both maps as they were.
C18_FunctionsMatchUdfDefs ==
    /\ \A n \in DOMAIN udf_defs :
          /\ n \in DOMAIN functions
          /\ functions[n].args =
                [i \in DOMAIN udf_defs[n].args |-> as_datatype(udf_defs[n].args[i])]
          /\ functions[n].ret = as_datatype(udf_defs[n].ret)
    /\ \A n \in DOMAIN functions \ BuiltinNames : n \in DOMAIN udf_defs
    /\ (/\ UdfStoppedAtItem
        /\ udf_done = 0
        /\ FailingItem.item = "Fn"
        /\ ~SignatureDefect(FailingItem)
        /\ FailingItem.ident \in DOMAIN udf_defs0) =>
          /\ udf_result = "NameCollision"
          /\ functions = functions0
          /\ udf_defs = udf_defs0

(***************************************************************************)
(* Properties of the catalog                                               *)
(***************************************************************************)
\* The table names of the model.
TableNames == {"t", "s", "v"}

\* C11: last write wins: after any sequence of add_connector_table calls and
\* CREATE VIEW / CREATE TABLE AS statements, a name resolves iff something
\* was written under it, and the catalog holds under it the table of the
\* latest write; entries under other names stay as their own latest write
\* left them; an entry that add_connector_table replaced by a different
\* table is no longer the one under its name.
C11_LastWriteWins ==
    /\ \A n \in TableNames :
          /\ get_table_provider(tables, n) <=> n \in DOMAIN last_write
          /\ n \in DOMAIN last_write => tables[n] = last_write[n]
    /\ overwritten # NoTable =>
          /\ overwritten.name \in DOMAIN tables
          /\ tables[overwritten.name] # overwritten

\* With the connector table "t" registered, a connector table "v" was
\* registered as a Source and then again as a Sink with another id: the
\* catalog holds the second under "v", the first is the entry that call
\* replaced, and "t" is as registered.
C11_Witness ==
    /\ pc = "idle"
    /\ overwritten = ConnectorTable(3, "v", "Source")
    /\ tables["v"] = ConnectorTable(4, "v", "Sink")
    /\ "t" \in DOMAIN tables
    /\ tables["t"] = ConnectorTable(1, "t", "Source")

\* C12: every table of the catalog is stored under its own name and has a
\* name (it is no InsertQuery and no Anonymous); the unnamed tables of a call
\* are on its output list, in order, and insert_table on any of them leaves
\* the catalog as it is.
C12_StoredUnderOwnName ==
    /\ \A n \in DOMAIN tables :
          /\ tables[n].variant \notin {"InsertQuery", "Anonymous"}
          /\ TableName(tables[n]).some
          /\ TableName(tables[n]).name = n
    /\ \A i \in DOMAIN outputs :
          /\ outputs[i].variant \in {"InsertQuery", "Anonymous"}
          /\ insert_table(tables, outputs[i]) = tables
    /\ LET IsUnnamedTable(tb) == ~TableName(tb).some
       IN outputs = SelectSeq(classified, IsUnnamedTable)

\* A call has classified an INSERT INTO and a bare SELECT: the two are on
\* the outputs, and the catalog holds the two connector tables only.
C12_Witness ==
    /\ pc = "planned"
    /\ Len(classified) = 2
    /\ classified[1].variant = "InsertQuery"
    /\ classified[2].variant = "Anonymous"
    /\ outputs = classified
    /\ DOMAIN tables = {"t", "s"}

\* A step of plan_query: the call with Parser::parse_sql, or one iteration
\* of the loop.
PlanQueryActs == pc \in {"idle", "planning"} /\ pc' # "idle"

\* C14: plan_query changes the table map only when it processes a CREATE
\* VIEW / CREATE TABLE AS (an INSERT INTO, a bare SELECT or any other
\* statement leaves it unchanged), and for no statement does it change
\* functions, udf_defs, connections or source_defs.
C14_OnlyNamedStatementsChangeCatalog ==
    [][PlanQueryActs =>
          /\ functions' = functions
          /\ udf_defs' = udf_defs
          /\ connections' = connections
          /\ source_defs' = source_defs
          /\ (tables' # tables => pc = "planning" /\ IsNamedStatement(stmts[idx]))]_vars

\* With a connection and source definitions registered, a call has
\* processed an INSERT INTO and then a CREATE VIEW: the catalog differs from
\* the one at the call in the view only.
C14_Witness ==
    /\ pc = "planned"
    /\ connections # EmptyMap
    /\ source_defs # EmptyMap
    /\ Len(classified) = 2
    /\ classified[1].variant = "InsertQuery"
    /\ classified[2].variant = "TableFromQuery"
    /\ DOMAIN tables = DOMAIN tables0 \cup {"v"}
    /\ \A n \in DOMAIN tables0 : tables[n] = tables0[n]
    /\ "v" \notin DOMAIN tables0

(***************************************************************************)
(* Properties of the MQTT connectivity test                                *)
(***************************************************************************)
\* The terminal event of a test whose test_inner returned mq_ret.
TerminalEvent == IF mq_ret.kind = "Ok" THEN done(mq_ret.msg) ELSE fail(mq_ret.msg)

\* C15: an invocation of test whose event channel is open has emitted
\* nothing before the task starts, then the info event "Connecting to Mqtt"
\* alone while the probe runs, and, once the task is through, that info
\* event followed by one terminal event: done with the probe's message if
\* it succeeded, fail with the error otherwise; and the task never aborts.
C15_InfoThenOneTerminal ==
    (mq_via = "test" /\ rx_open) =>
        /\ mq_pc # "panicked"
        /\ (mq_pc = "spawned" => mq_tx = <<>>)
        /\ (mq_pc \in {"configuring", "subscribing", "publishing", "polling", "returned"} =>
               mq_tx = <<info(<<"Connecting to Mqtt">>)>>)
        /\ (mq_pc = "finished" =>
               mq_tx = <<info(<<"Connecting to Mqtt">>), TerminalEvent>>)

\* test_inner has returned from its loop (not from the configuration).
LoopEnded == mq_ret # NoReturn /\ mq_last # NoPoll

IncomingPublish == PollResult(TRUE, "Incoming", "Publish", TRUE)

OutgoingPublish == PollResult(TRUE, "Outgoing", "Publish", TRUE)

\* C16: the probe loop. It waits for an incoming publish exactly with a
\* Source table. With a Source table it returns success only on an incoming
\* publish, and goes on polling after an outgoing one; with a Sink table or
\* without a table the outgoing publish ends it with "Successfully
\* published"; in every mode a disconnect, incoming or outgoing, and a poll
\* error end it with a failure; while it polls, none of these has occurred.
C16_ProbeLoopOutcome ==
    /\ (mq_pc = "polling" \/ LoopEnded) =>
           (wait_for_incomming <=> mq_table = "Source")
    /\ LoopEnded =>
        /\ (mq_table = "Source" /\ mq_ret.kind = "Ok") =>
               /\ mq_last = IncomingPublish
               /\ mq_ret.msg = <<"Successfully subscribed">>
        /\ (mq_table # "Source" /\ mq_last = OutgoingPublish) =>
               mq_ret = Returned("Ok", <<"Successfully published">>)
        /\ mq_last.packet = "Disconnect" =>
               mq_ret = Returned("Err", <<"Disconnected from Mqtt">>)
        /\ ~mq_last.ok => mq_ret.kind = "Err"
        /\ mq_ret.kind = "Ok" => mq_last.packet = "Publish"
    /\ (mq_pc = "polling" /\ mq_last # NoPoll) =>
        /\ mq_last.ok
        /\ mq_last.packet # "Disconnect"
        /\ mq_last.packet = "Publish" =>
               mq_last.dir = "Outgoing" /\ mq_table = "Source"

\* The probe of a Source table has seen its own outgoing publish and is
\* still polling.
C16_Witness ==
    /\ mq_pc = "polling"
    /\ mq_table = "Source"
    /\ mq_last = OutgoingPublish

\* C17: every connectivity test that was started comes to its end, the
\* test of a Source table included: the task sends its terminal message (or
\* aborts), whatever events arrive.
C17_EventuallyReports ==
    (mq_pc # "idle" /\ mq_table = "Source") ~> (mq_pc \in {"finished", "panicked"})

====
